---------------------------- MODULE Spec2Model ----------------------------
(***************************************************************************)
(* A model of the news search engine of ozoops/news-search-app:            *)
(*   - search_naver_news      the paginated fetch loop                     *)
(*   - search_google_news     the feed search with its HTML fallback       *)
(*   - resolve_dates          date validation and ordering                 *)
(*   - parse_search_results   the two extraction strategies                *)
(*   - _clean_google_link     link normalisation                           *)
(*   - the per-keyword dedup loop of app.py                                *)
(* Each component has its own specification over its own variables; the    *)
(* variables of the other components stay at their idle values.            *)
(***************************************************************************)
EXTENDS Integers, Sequences, FiniteSets, TLC

VARIABLES
    \* ---- shared by the search functions ----
    max_items,      \* the max_items argument
    results,        \* the running result list
    pc,             \* position in the function that runs; "idle" when none does
    outcome,        \* "none", "returned", or the error raised to the caller
    \* ---- search_naver_news ----
    page,           \* the loop variable of "for page in range(pages)"
    collected,      \* the collected counter
    served,         \* what the backend answered to each request, in order
    trace,          \* the requests and sleeps of the run, in order
    \* ---- search_google_news ----
    start_dt,       \* start of the date window, a date as a number
    end_dt,         \* end of the date window
    feed,           \* the answer to the feed request
    html,           \* the answer to the HTML search request
    fallbacks,      \* how many times _search_google_news_html was called
    impl,           \* which search_google_news runs: "feed" is the one of the
                    \* _debug module, "html" the one of the module app.py imports
    start_date,     \* the start_date argument, a string: the code points of its characters
    end_date,       \* the end_date argument
    \* ---- resolve_dates ----
    start,          \* the start argument, a string: the code points of its characters
    end,            \* the end argument
    \* ---- _clean_google_link ----
    link,           \* the link argument, a string of tokens
    cleaned,        \* _clean_google_link(link)
    recleaned,      \* _clean_google_link(cleaned)
    \* ---- parse_search_results ----
    doc,            \* the nodes of the HTML document, in document order
    out,            \* the list parse_search_results returns
    \* ---- the dedup loop of app.py ----
    unique_results, \* unique_results
    seen_links      \* seen_links

sharedVars == <<max_items, results, pc, outcome>>
naverVars == <<page, collected, served, trace>>
googleVars == <<impl, start_date, end_date, start_dt, end_dt, feed, html, fallbacks>>
dateVars == <<start, end>>
cleanVars == <<link, cleaned, recleaned>>
extractVars == <<doc, out>>
dedupVars == <<unique_results, seen_links>>

vars == <<sharedVars, naverVars, googleVars, dateVars, cleanVars, extractVars, dedupVars>>

\* The values of the variables of the components that do not run.
NaverIdle == page = 0 /\ collected = 0 /\ served = <<>> /\ trace = <<>>
NoAnswer == [kind |-> "none", body |-> <<>>]
GoogleIdle ==
    /\ impl = "none"
    /\ start_date = <<>> /\ end_date = <<>> /\ start_dt = 0 /\ end_dt = 0
    /\ feed = NoAnswer /\ html = NoAnswer /\ fallbacks = 0
DateIdle == start = <<>> /\ end = <<>>
CleanIdle == link = <<>> /\ cleaned = <<>> /\ recleaned = <<>>
ExtractIdle == doc = <<>> /\ out = <<>>
DedupIdle == unique_results = <<>> /\ seen_links = {}

-----------------------------------------------------------------------------
(* Bounds of the model *)

MaxItems == 31          \* max_items ranges over 1..MaxItems
MaxPageLen == 11        \* a page yields 0..MaxPageLen records

(* Program constants *)

PageSize == 10          \* "pages = (max_items + 9) // 10", "start: page * 10 + 1"

-----------------------------------------------------------------------------
(* search_naver_news *)

\* pages = (max_items + 9) // 10
Pages(m) == (m + (PageSize - 1)) \div PageSize

\* The k records parse_search_results extracts from page p, in document order.
PageItems(p, k) == [i \in 1..k |-> [page |-> p, idx |-> i]]

Take(s, n) == IF n >= Len(s) THEN s ELSE SubSeq(s, 1, n)

\* A variant that checks the cap only after the whole page was appended.
AppendWholePage(res, items, room) == res \o items

\* "for it in items: results.append(it); collected += 1;
\*  if collected >= max_items: return results", with room = max_items - collected
AppendUntilCap(res, items, room) == res \o Take(items, room)

NaverInit ==
    /\ max_items \in 1..MaxItems
    /\ page = 0
    /\ results = <<>>
    /\ collected = 0
    /\ pc = "loop"
    /\ outcome = "none"
    /\ served = <<>>
    /\ trace = <<>>
    /\ GoogleIdle /\ DateIdle /\ CleanIdle /\ ExtractIdle /\ DedupIdle

notNaver == <<googleVars, dateVars, cleanVars, extractVars, dedupVars>>

\* safe_get raises requests.RequestException: the except clause logs and breaks.
RequestFails ==
    /\ pc = "loop"
    /\ page < Pages(max_items)
    /\ served' = Append(served, [ok |-> FALSE, n |-> 0])
    /\ trace' = Append(trace, "req")
    /\ pc' = "done"
    /\ outcome' = "returned"
    /\ UNCHANGED <<max_items, page, results, collected>>
    /\ UNCHANGED notNaver

\* A variant that skips an empty page and goes on with the next one.
PageEmptyContinue ==
    /\ pc = "loop"
    /\ page < Pages(max_items)
    /\ served' = Append(served, [ok |-> TRUE, n |-> 0])
    /\ trace' = Append(trace, "req")
    /\ pc' = "loop"
    /\ page' = page + 1
    /\ UNCHANGED <<max_items, results, collected, outcome>>
    /\ UNCHANGED notNaver

\* "if not items: break"
PageEmpty ==
    /\ pc = "loop"
    /\ page < Pages(max_items)
    /\ served' = Append(served, [ok |-> TRUE, n |-> 0])
    /\ trace' = Append(trace, "req")
    /\ pc' = "done"
    /\ outcome' = "returned"
    /\ UNCHANGED <<max_items, page, results, collected>>
    /\ UNCHANGED notNaver

\* A variant that sleeps after every page, the last one included.
AlwaysSleep(p, m) == "sleep"

\* "if page < pages - 1: time.sleep(...)": where the loop goes after a page
\* whose records were all appended without reaching max_items.
AfterPage(p, m) == IF p < Pages(m) - 1 THEN "sleep" ELSE "loop"

\* The page yields k >= 1 records: the inner for loop appends them one by one
\* and returns as soon as collected >= max_items.
PageItemsFetched ==
    /\ pc = "loop"
    /\ page < Pages(max_items)
    /\ \E k \in 1..MaxPageLen :
        LET items == PageItems(page, k)
            room  == max_items - collected
        IN  /\ served' = Append(served, [ok |-> TRUE, n |-> k])
            /\ trace' = Append(trace, "req")
            /\ IF k >= room
                 THEN /\ results' = AppendUntilCap(results, items, room)
                      /\ collected' = collected + room
                      /\ pc' = "done"
                      /\ outcome' = "returned"
                      /\ page' = page
                 ELSE /\ results' = AppendUntilCap(results, items, room)
                      /\ collected' = collected + k
                      /\ pc' = AfterPage(page, max_items)
                      /\ outcome' = outcome
                      /\ page' = IF AfterPage(page, max_items) = "sleep"
                                   THEN page ELSE page + 1
    /\ UNCHANGED max_items
    /\ UNCHANGED notNaver

\* time.sleep(SLEEP_BETWEEN_REQUESTS), then the next iteration
Sleep ==
    /\ pc = "sleep"
    /\ trace' = Append(trace, "sleep")
    /\ page' = page + 1
    /\ pc' = "loop"
    /\ UNCHANGED <<max_items, results, collected, outcome, served>>
    /\ UNCHANGED notNaver

\* range(pages) is exhausted: "return results"
LoopExit ==
    /\ pc = "loop"
    /\ page >= Pages(max_items)
    /\ pc' = "done"
    /\ outcome' = "returned"
    /\ UNCHANGED <<max_items, page, results, collected, served, trace>>
    /\ UNCHANGED notNaver

NaverNext == RequestFails \/ PageEmpty \/ PageItemsFetched \/ Sleep \/ LoopExit

Spec == NaverInit /\ [][NaverNext]_vars

\* The records of the pages before the i-th request, in fetch order.
RECURSIVE PagesBefore(_)
PagesBefore(i) ==
    IF i <= 1 THEN <<>>
    ELSE PagesBefore(i - 1) \o PageItems(i - 2, served[i - 1].n)

Stops(o) == (~o.ok) \/ o.n = 0

\* The first maxItems records of a backend whose pages are all full.
FirstOfFullPages(m) ==
    [j \in 1..m |-> [page |-> (j - 1) \div PageSize, idx |-> ((j - 1) % PageSize) + 1]]

\* C1: the paginated search never holds more than max_items records, and when
\* every page it fetched yielded exactly PageSize records it returns exactly
\* the first max_items of them, in page order and then within-page order.
C1_CapAndPrefix ==
    /\ Len(results) <= max_items
    /\ (pc = "done" /\ \A i \in 1..Len(served) : served[i].ok /\ served[i].n = PageSize)
          => /\ results = FirstOfFullPages(max_items)
             /\ Len(served) = Pages(max_items)

\* max_items = 15: two full pages are fetched and 15 of the 20 records returned.
C1_Witness ==
    /\ pc = "done"
    /\ max_items = 15
    /\ served = <<[ok |-> TRUE, n |-> PageSize], [ok |-> TRUE, n |-> PageSize]>>
    /\ Len(results) = 15
    /\ results[15] = [page |-> 1, idx |-> 5]

\* C2: the loop stops at the first page that is empty or whose request fails:
\* that page is the last one requested, the call returns (raises nothing) and
\* the result is exactly the records of the pages before it, in order.
C2_StopsAtFirstEmptyOrFailedPage ==
    \A i \in 1..Len(served) :
        Stops(served[i]) =>
            /\ i = Len(served)
            /\ pc = "done"
            /\ outcome = "returned"
            /\ results = PagesBefore(i)
            /\ Cardinality({j \in 1..Len(trace) : trace[j] = "req"}) = i

\* Pages 0-2 full, page 3 empty: the 30 records of pages 0-2 are returned.
C2_Witness ==
    /\ pc = "done"
    /\ Len(served) = 4
    /\ \A i \in 1..3 : served[i] = [ok |-> TRUE, n |-> PageSize]
    /\ served[4] = [ok |-> TRUE, n |-> 0]
    /\ Len(results) = 3 * PageSize
    /\ results[Len(results)] = [page |-> 2, idx |-> PageSize]

\* C10: requests and politeness delays alternate, starting with a request
\* (exactly one delay between two consecutive requests), and a finished run
\* ends with a request: no delay follows the last request, however the run ends.
C10_DelayOnlyBetweenRequests ==
    /\ \A i \in 1..Len(trace) : (trace[i] = "req") <=> (i % 2 = 1)
    /\ Cardinality({j \in 1..Len(trace) : trace[j] = "req"}) = Len(served)
    /\ pc = "done" => /\ trace # <<>>
                      /\ trace[Len(trace)] = "req"
                      /\ Cardinality({j \in 1..Len(trace) : trace[j] = "sleep"})
                            = Len(served) - 1

\* A run that exhausts its three pages without reaching max_items: two delays,
\* none after the third request.
C10_Witness ==
    /\ pc = "done"
    /\ Pages(max_items) = 3
    /\ page = 3
    /\ Len(results) < max_items
    /\ trace = <<"req", "sleep", "req", "sleep", "req">>


-----------------------------------------------------------------------------
(* _clean_google_link *)

\* A link is a string, modelled as a sequence of tokens whose concatenation is
\* the string. No token but "/url?" holds a "?", none holds a "#" or a "%".
LinkTokens ==
    {"https://www.google.com", "/url?", "q=", "url=", "&", "http://a.com/1",
     "https://maps.google.com", "https://support.google.com", "/x", "./y", "ftp://h"}

MaxLinkLen == 3         \* a link has at most MaxLinkLen tokens

Links == UNION {[1..n -> LinkTokens] : n \in 0..MaxLinkLen}

\* link.startswith("http")
StartsWithHttp(l) ==
    /\ l # <<>>
    /\ l[1] \in {"https://www.google.com", "https://news.google.com", "http://a.com/1",
                 "https://maps.google.com", "https://support.google.com"}

\* link.startswith("/url?") or link.startswith("https://www.google.com/url?")
IsRedirectWrapper(l) ==
    /\ l # <<>>
    /\ \/ l[1] = "/url?"
       \/ Len(l) >= 2 /\ l[1] = "https://www.google.com" /\ l[2] = "/url?"

\* The place of the first "?" of the string, 0 when it has none.
QueryStart(l) ==
    LET S == {i \in 1..Len(l) : l[i] = "/url?"}
    IN  IF S = {} THEN 0 ELSE CHOOSE i \in S : \A j \in S : i <= j

\* urlparse(link).query
UrlQuery(l) == IF QueryStart(l) = 0 THEN <<>> ELSE SubSeq(l, QueryStart(l) + 1, Len(l))

\* query.split("&")
RECURSIVE SplitAmp(_)
SplitAmp(q) ==
    LET S == {i \in 1..Len(q) : q[i] = "&"}
    IN  IF S = {} THEN <<q>>
        ELSE LET i == CHOOSE i \in S : \A j \in S : i <= j
             IN  <<SubSeq(q, 1, i - 1)>> \o SplitAmp(SubSeq(q, i + 1, Len(q)))

\* parse_qs(query).get(key): the values of the fields named key, in order. A
\* field is named by the text before its first "="; blank values are dropped.
RECURSIVE FieldValues(_, _)
FieldValues(segs, key) ==
    IF segs = <<>> THEN <<>>
    ELSE LET seg == Head(segs)
         IN  (IF Len(seg) > 1 /\ seg[1] = key THEN <<Tail(seg)>> ELSE <<>>)
               \o FieldValues(Tail(segs), key)

QueryValues(q, key) == FieldValues(SplitAmp(q), key)

\* urlunparse leaves out the "?" of an empty query.
DropEmptyQuery(l) ==
    IF QueryStart(l) # 0 /\ QueryStart(l) = Len(l)
      THEN SubSeq(l, 1, Len(l) - 1) \o <<"/url">>
      ELSE l

\* urljoin("https://www.google.com", link), for a redirect wrapper
UrlJoinGoogle(l) ==
    IF l[1] = "/url?" THEN <<"https://www.google.com">> \o DropEmptyQuery(l)
    ELSE DropEmptyQuery(l)

\* A path segment relative to the base: urljoin puts it under "/" and drops "./".
RelativeHead(t) ==
    CASE t = "./y"  -> "/y"
      [] t = "q="   -> "/q="
      [] t = "url=" -> "/url="
      [] t = "&"    -> "/&"

\* In a relative path urljoin drops the empty segment of a "//".
CollapseSlashes(t) ==
    CASE t = "https://www.google.com"     -> "https:/www.google.com"
      [] t = "http://a.com/1"             -> "http:/a.com/1"
      [] t = "https://maps.google.com"    -> "https:/maps.google.com"
      [] t = "https://support.google.com" -> "https:/support.google.com"
      [] t = "ftp://h"                    -> "ftp:/h"
      [] OTHER                            -> t

\* urljoin("https://news.google.com", link), for a link that starts neither with
\* "http" nor with "/url?"
UrlJoinNews(l) ==
    IF l[1] = "ftp://h" THEN l                       \* another scheme: unchanged
    ELSE IF l[1] = "/x" THEN <<"https://news.google.com">> \o DropEmptyQuery(l)
    ELSE LET n == IF QueryStart(l) = 0 THEN Len(l) ELSE QueryStart(l) - 1
             joined == [i \in 1..Len(l) |->
                          IF i = 1 THEN RelativeHead(l[1])
                          ELSE IF i <= n THEN CollapseSlashes(l[i])
                          ELSE l[i]]
         IN  <<"https://news.google.com">> \o DropEmptyQuery(joined)

\* A variant that filters a link without an HTTP(S) scheme instead of resolving it.
CleanFilteringRelative(l) ==
    IF l = <<>> THEN l
    ELSE IF IsRedirectWrapper(l)
      THEN LET q == QueryValues(UrlQuery(l), "q=")
               u == QueryValues(UrlQuery(l), "url=")
           IN  IF q # <<>> THEN q[1]
               ELSE IF u # <<>> THEN u[1]
               ELSE UrlJoinGoogle(l)
    ELSE IF StartsWithHttp(l) THEN l
    ELSE <<>>

\* _clean_google_link(link); the empty string stands for "" and None alike.
CleanGoogleLink(l) ==
    IF l = <<>> THEN l
    ELSE IF IsRedirectWrapper(l)
      THEN LET q == QueryValues(UrlQuery(l), "q=")
               u == QueryValues(UrlQuery(l), "url=")
           IN  IF q # <<>> THEN q[1]
               ELSE IF u # <<>> THEN u[1]
               ELSE UrlJoinGoogle(l)
    ELSE IF StartsWithHttp(l) THEN l
    ELSE UrlJoinNews(l)

notClean == <<max_items, results, outcome, naverVars, googleVars, dateVars,
              extractVars, dedupVars>>

CleanInit ==
    /\ link \in Links
    /\ cleaned = <<>>
    /\ recleaned = <<>>
    /\ pc = "call"
    /\ max_items = 0 /\ results = <<>> /\ outcome = "none"
    /\ NaverIdle /\ GoogleIdle /\ DateIdle /\ ExtractIdle /\ DedupIdle

\* cleaned = _clean_google_link(link)
Clean ==
    /\ pc = "call"
    /\ cleaned' = CleanGoogleLink(link)
    /\ pc' = "again"
    /\ UNCHANGED <<link, recleaned>>
    /\ UNCHANGED notClean

\* recleaned = _clean_google_link(cleaned)
CleanAgain ==
    /\ pc = "again"
    /\ recleaned' = CleanGoogleLink(cleaned)
    /\ pc' = "done"
    /\ UNCHANGED <<link, cleaned>>
    /\ UNCHANGED notClean

CleanNext == Clean \/ CleanAgain

SpecClean == CleanInit /\ [][CleanNext]_vars

\* An absolute link that is no redirect wrapper and no map or support page.
IsArticleLink(l) ==
    /\ StartsWithHttp(l)
    /\ ~IsRedirectWrapper(l)
    /\ l[1] \notin {"https://maps.google.com", "https://support.google.com"}

\* C7 as stated: clean is idempotent on absolute article links and returns
\* null for every link that lacks an HTTP(S) scheme.
C7_NullWithoutScheme ==
    pc = "done" =>
        /\ IsArticleLink(link) => recleaned = cleaned
        /\ ~StartsWithHttp(link) => cleaned = <<>>

\* C7, amended: clean returns an absolute article link unchanged (so it is
\* idempotent on it), and it returns null only for an empty link: a non-empty
\* link without an HTTP(S) scheme is not filtered. A redirect wrapper gives the
\* first value of its q parameter, or else of its url parameter, whatever that
\* is, and a wrapper with neither comes back resolved against
\* https://www.google.com; any other link without an HTTP(S) scheme comes back
\* resolved against https://news.google.com, or unchanged when it names
\* another scheme.
C7_RelativeLinksAreResolved ==
    pc = "done" =>
        /\ IsArticleLink(link) => cleaned = link /\ recleaned = cleaned
        /\ cleaned = <<>> <=> link = <<>>
        /\ (link # <<>> /\ ~StartsWithHttp(link) /\ ~IsRedirectWrapper(link))
              => \/ cleaned[1] = "https://news.google.com"
                 \/ cleaned = link /\ link[1] = "ftp://h"
        /\ IsRedirectWrapper(link) =>
              LET q == QueryValues(UrlQuery(link), "q=")
                  u == QueryValues(UrlQuery(link), "url=")
              IN  /\ q # <<>> => cleaned = q[1]
                  /\ (q = <<>> /\ u # <<>>) => cleaned = u[1]
                  /\ (q = <<>> /\ u = <<>>) => cleaned[1] = "https://www.google.com"

\* The relative link "./y" comes back as "https://news.google.com/y", an absolute
\* article link that cleaning again leaves as it is.
C7_Witness ==
    /\ pc = "done"
    /\ link = <<"./y">>
    /\ cleaned = <<"https://news.google.com", "/y">>
    /\ IsArticleLink(cleaned)
    /\ recleaned = cleaned


-----------------------------------------------------------------------------
(* validate_yyyymmdd and resolve_dates *)

\* A date argument is a string, modelled as the sequence of the code points
\* of its characters; the empty sequence stands for an argument that is not
\* given (None or "").

\* The characters that the model writes by name, each with its code point.
CodePoints ==
    {<<" ", 32>>, <<"-", 45>>, <<"a", 97>>,
     <<"0", 48>>, <<"1", 49>>, <<"2", 50>>, <<"3", 51>>, <<"4", 52>>,
     <<"5", 53>>, <<"6", 54>>, <<"7", 55>>, <<"8", 56>>, <<"9", 57>>}

\* ord(ch)
Ord(ch) == (CHOOSE p \in CodePoints : p[1] = ch)[2]

\* The string that the characters cs write.
Str(cs) == [i \in 1..Len(cs) |-> Ord(cs[i])]

\* The string that writes the digits ds in the script whose zero is zero.
InScript(zero, ds) == [i \in 1..Len(ds) |-> zero + ds[i]]

\* The decimal digits of Unicode (category Nd) come in runs of ten, zero to
\* nine in the order of the code points.  The code point of the zero of every
\* run of Unicode 14.0.0, the database of CPython 3.11: 66 runs, 660 digits,
\* from the ASCII digits (48) to the segmented digits (130032).
DecimalZeros ==
    {48, 1632, 1776, 1984, 2406, 2534, 2662, 2790,
     2918, 3046, 3174, 3302, 3430, 3558, 3664, 3792,
     3872, 4160, 4240, 6112, 6160, 6470, 6608, 6784,
     6800, 6992, 7088, 7232, 7248, 42528, 43216, 43264,
     43472, 43504, 43600, 44016, 65296, 66720, 68912, 69734,
     69872, 69942, 70096, 70384, 70736, 70864, 71248, 71360,
     71472, 71904, 72016, 72784, 73040, 73120, 92768, 92864,
     93008, 120782, 120792, 120802, 120812, 120822, 123200, 123632,
     125264, 130032}

\* [0-9]
IsAsciiDigit(c) == c \in Ord("0")..Ord("9")

\* \d of a str pattern: a decimal digit of any script
IsDigit(c) == \E z \in DecimalZeros : c \in z..(z + 9)

\* int(c), for a decimal digit
DigitOf(c) == c - (CHOOSE z \in DecimalZeros : c \in z..(z + 9))

\* The number a string of digits writes.
RECURSIVE NumberOf(_)
NumberOf(s) ==
    IF s = <<>> THEN 0
    ELSE 10 * NumberOf(SubSeq(s, 1, Len(s) - 1)) + DigitOf(s[Len(s)])

\* n written with w digits, as "%04d" and "%02d" write it
RECURSIVE Fmt(_, _)
Fmt(n, w) == IF w = 0 THEN <<>> ELSE Fmt(n \div 10, w - 1) \o <<Ord("0") + (n % 10)>>

IsLeap(y) == y % 4 = 0 /\ (y % 100 # 0 \/ y % 400 = 0)

DaysInMonth(y, m) ==
    IF m = 2 THEN (IF IsLeap(y) THEN 29 ELSE 28)
    ELSE IF m \in {4, 6, 9, 11} THEN 30
    ELSE 31

\* re.fullmatch(r"\d{8}", s or "")
IsEightDigits(s) == Len(s) = 8 /\ \A i \in 1..8 : IsDigit(s[i])

AllDigits(f) == \A i \in 1..Len(f) : IsDigit(f[i])

AllAsciiDigits(f) == \A i \in 1..Len(f) : IsAsciiDigit(f[i])

\* %Y: \d\d\d\d
YearField(f) == Len(f) = 4 /\ AllDigits(f)

\* %m: 1[0-2], 0[1-9] or [1-9]
MonthField(f) ==
    /\ Len(f) \in {1, 2}
    /\ AllAsciiDigits(f)
    /\ NumberOf(f) >= 1
    /\ NumberOf(f) <= 12

\* %d: 3[01], [12]\d, 0[1-9], [1-9] or a space and [1-9]
DayField(f) ==
    \/ Len(f) = 1 /\ IsAsciiDigit(f[1]) /\ DigitOf(f[1]) >= 1
    \/ Len(f) = 2 /\ f[1] = Ord("3") /\ f[2] \in {Ord("0"), Ord("1")}
    \/ Len(f) = 2 /\ f[1] \in {Ord("1"), Ord("2")} /\ IsDigit(f[2])
    \/ Len(f) = 2 /\ f[1] \in {Ord("0"), Ord(" ")} /\ IsAsciiDigit(f[2]) /\ DigitOf(f[2]) >= 1

DayOfField(f) == IF f[1] = Ord(" ") THEN DigitOf(f[2]) ELSE NumberOf(f)

\* datetime.strptime(s, "%Y%m%d") does not raise, for a string of eight digits:
\* the month and the day take two characters each, or a character is left over
StrptimeAccepts(s) ==
    /\ YearField(SubSeq(s, 1, 4))
    /\ MonthField(SubSeq(s, 5, 6))
    /\ DayField(SubSeq(s, 7, 8))
    /\ NumberOf(SubSeq(s, 1, 4)) >= 1
    /\ NumberOf(SubSeq(s, 7, 8)) <= DaysInMonth(NumberOf(SubSeq(s, 1, 4)), NumberOf(SubSeq(s, 5, 6)))

\* validate_yyyymmdd(s) returns, that is, raises no ValueError
Validates(s) == IsEightDigits(s) /\ StrptimeAccepts(s)

\* a > b for two Python strings: the order of the code points of the first
\* differing character, a proper prefix being the smaller
RECURSIVE StrGreater(_, _)
StrGreater(a, b) ==
    IF a = <<>> THEN FALSE
    ELSE IF b = <<>> THEN TRUE
    ELSE IF Head(a) # Head(b) THEN Head(a) > Head(b)
    ELSE StrGreater(Tail(a), Tail(b))

Returned(s, e) == [outcome |-> "returned", value |-> <<s, e>>]
Raised(err) == [outcome |-> err, value |-> <<>>]

\* resolve_dates(start, end), today being datetime.today() as "%Y%m%d"
ResolveDates(s, e, today) ==
    IF s # <<>> /\ e = <<>>
      THEN IF ~Validates(s) THEN Raised("InvalidDateFormat")
           ELSE IF StrGreater(s, today) THEN Raised("InvalidDateRange")
           ELSE Returned(s, today)
    ELSE IF s = <<>> /\ e = <<>>
      THEN Returned(today, today)
    ELSE IF ~Validates(s) THEN Raised("InvalidDateFormat")
    ELSE IF ~Validates(e) THEN Raised("InvalidDateFormat")
    ELSE IF StrGreater(s, e) THEN Raised("InvalidDateRange")
    ELSE Returned(s, e)

Years == {0, 1900, 2000, 2023, 2024}
Months == {0, 1, 2, 4, 12, 13}
MonthDays == {0, 1, 28, 29, 30, 31, 32}

\* Eight digits, a calendar date or not
WrittenDates == {Fmt(y, 4) \o Fmt(m, 2) \o Fmt(d, 2) : y \in Years, m \in Months, d \in MonthDays}

\* Strings that are not eight digits: too short, too long, with other characters
OtherStrings ==
    {Str(<<"2", "0", "2", "4", "0", "1", "0">>),
     Str(<<"2", "0", "2", "4", "0", "1", "0", "1", "0">>),
     Str(<<"2", "0", "2", "4", "-", "1", "-", "1">>),
     Str(<<"2", "0", "2", "4", "0", "1", "0", "a">>),
     Str(<<"a">>)}

\* Eight digits of which some are not ASCII: the year 2024 in fullwidth
\* digits (zero U+FF10), in Arabic-Indic digits (U+0660), in Devanagari digits
\* (U+0966) and in mathematical bold digits (U+1D7CE), a year of two scripts,
\* a fullwidth digit in the month, a fullwidth or Devanagari digit in the day.
WideStrings ==
    {InScript(65296, <<2, 0, 2, 4>>) \o Str(<<"0", "1", "0", "1">>),
     InScript(1632, <<2, 0, 2, 4>>) \o Str(<<"1", "2", "3", "1">>),
     InScript(2406, <<2, 0, 2, 4>>) \o Str(<<"0", "1", "0", "1">>),
     InScript(120782, <<2, 0, 2, 4>>) \o Str(<<"0", "2", "2", "9">>),
     InScript(3664, <<2, 0>>) \o InScript(43216, <<2, 4>>) \o Str(<<"0", "1", "0", "1">>),
     Str(<<"2", "0", "2", "4", "0">>) \o InScript(65296, <<1>>) \o Str(<<"0", "1">>),
     Str(<<"2", "0", "2", "4", "0", "1", "1">>) \o InScript(65296, <<3>>),
     Str(<<"2", "0", "2", "4", "0", "1", "2">>) \o InScript(2406, <<3>>),
     Str(<<"2", "0", "2", "4", "0", "1", "0">>) \o InScript(65296, <<3>>)}

DateArguments == WrittenDates \cup OtherStrings \cup WideStrings \cup {<<>>}

Today == Fmt(2024, 4) \o Fmt(2, 2) \o Fmt(29, 2)

notDates == <<max_items, naverVars, googleVars, cleanVars, extractVars, dedupVars>>

DatesInit ==
    /\ start \in DateArguments
    /\ end \in DateArguments
    /\ pc = "call"
    /\ outcome = "none"
    /\ results = <<>>
    /\ max_items = 0
    /\ NaverIdle /\ GoogleIdle /\ CleanIdle /\ ExtractIdle /\ DedupIdle

\* The call resolve_dates(start, end)
ResolveDatesCall ==
    /\ pc = "call"
    /\ outcome' = ResolveDates(start, end, Today).outcome
    /\ results' = ResolveDates(start, end, Today).value
    /\ pc' = "done"
    /\ UNCHANGED <<start, end>>
    /\ UNCHANGED notDates

DatesNext == ResolveDatesCall

SpecDates == DatesInit /\ [][DatesNext]_vars

\* The string is eight decimal digits that write a day of the calendar.
IsCalendarDate(s) ==
    /\ IsEightDigits(s)
    /\ NumberOf(SubSeq(s, 1, 4)) >= 1
    /\ NumberOf(SubSeq(s, 5, 6)) \in 1..12
    /\ NumberOf(SubSeq(s, 7, 8)) >= 1
    /\ NumberOf(SubSeq(s, 7, 8)) <= DaysInMonth(NumberOf(SubSeq(s, 1, 4)), NumberOf(SubSeq(s, 5, 6)))

\* The day a calendar date writes, as a number that grows with the calendar.
DayNumber(s) == NumberOf(s)

\* C5: with both dates given, a pair of calendar dates with start <= end is
\* returned unchanged, a pair of calendar dates with start > end fails with
\* InvalidDateRange, and a pair with a malformed date fails with
\* InvalidDateFormat; every pair that is returned has start <= end.
C5_ResolveDates ==
    pc = "done" =>
        /\ (start # <<>> /\ end # <<>>) =>
              /\ (IsCalendarDate(start) /\ IsCalendarDate(end)
                    /\ DayNumber(start) <= DayNumber(end))
                   => outcome = "returned" /\ results = <<start, end>>
              /\ (IsCalendarDate(start) /\ IsCalendarDate(end)
                    /\ DayNumber(start) > DayNumber(end))
                   => outcome = "InvalidDateRange"
              /\ (~IsCalendarDate(start) \/ ~IsCalendarDate(end))
                   => outcome = "InvalidDateFormat"
        /\ outcome = "returned" =>
              /\ IsCalendarDate(results[1]) /\ IsCalendarDate(results[2])
              /\ DayNumber(results[1]) <= DayNumber(results[2])


-----------------------------------------------------------------------------
(* search_google_news and _search_google_news_html *)

MaxFeedLen == 2         \* a feed has at most MaxFeedLen items
MaxAnchors == 2         \* an HTML answer has at most MaxAnchors anchors

ItemCaps == {1, 2}      \* the values of max_items

NoDate == 0             \* None, as _parse_pub_date returns it

\* The fields of a string between its "-" characters.
RECURSIVE SplitDash(_, _)
SplitDash(s, field) ==
    IF s = <<>> THEN <<field>>
    ELSE IF Head(s) = Ord("-") THEN <<field>> \o SplitDash(Tail(s), <<>>)
    ELSE SplitDash(Tail(s), Append(field, Head(s)))

\* datetime.strptime(s, "%Y-%m-%d") does not raise ValueError
StrptimeIsoAccepts(s) ==
    LET fs == SplitDash(s, <<>>)
    IN  /\ Len(fs) = 3
        /\ YearField(fs[1])
        /\ MonthField(fs[2])
        /\ DayField(fs[3])
        /\ NumberOf(fs[1]) >= 1
        /\ DayOfField(fs[3]) <= DaysInMonth(NumberOf(fs[1]), NumberOf(fs[2]))

\* A date as a number that grows with the calendar: year, month, day.
DateOf(y, m, d) == (y * 10000) + (m * 100) + d

\* datetime.strptime(s, "%Y-%m-%d").date(), for a string that is accepted
StrptimeIsoDate(s) ==
    LET fs == SplitDash(s, <<>>)
    IN  DateOf(NumberOf(fs[1]), NumberOf(fs[2]), DayOfField(fs[3]))

\* "%04d-%02d-%02d"
IsoText(y, m, d) == Fmt(y, 4) \o Str(<<"-">>) \o Fmt(m, 2) \o Str(<<"-">>) \o Fmt(d, 2)

\* date.max
DateMax == DateOf(9999, 12, 31)

\* The start_date and end_date arguments: three days of March 2024, one of
\* them written without padding and one with its year in Devanagari digits
\* (zero U+0966), the last day a date can hold, a date without dashes, a day
\* that is not in the calendar and a month in fullwidth digits (zero U+FF10).
GoogleDateArguments ==
    {IsoText(2024, 3, 1),
     Str(<<"2", "0", "2", "4", "-", "3", "-", "2">>),
     InScript(2406, <<2, 0, 2, 4>>) \o Str(<<"-", "0", "3", "-", "0", "3">>),
     IsoText(9999, 12, 31),
     Fmt(2024, 4) \o Fmt(3, 2) \o Fmt(1, 2),
     IsoText(2024, 2, 30),
     Str(<<"2", "0", "2", "4", "-">>) \o InScript(65296, <<0>>) \o Str(<<"3", "-", "0", "1">>)}

\* The text of a pubDate element: absent, not an RFC 2822 date, a date written
\* with a day and with or without a time zone, or a date whose zone offset has
\* more digits than a C int holds.
PubAbsent == [kind |-> "absent", day |-> 0, zone |-> "none"]
PubBad == [kind |-> "bad", day |-> 0, zone |-> "none"]
PubOn(d, z) == [kind |-> "rfc2822", day |-> DateOf(2024, 3, d), zone |-> z]
PubHugeZone(d) == [kind |-> "hugezone", day |-> DateOf(2024, 3, d), zone |-> "aware"]

\* _parse_pub_date(pub_text): the date as written; a naive datetime is taken
\* as UTC, which leaves its date as it is.  TypeError and ValueError are caught
\* and give None; the OverflowError of parsedate_to_datetime is not caught.
ParsePubDate(p) ==
    IF p.kind = "absent" THEN [raised |-> "none", date |-> NoDate]
    ELSE IF p.kind = "bad" THEN [raised |-> "none", date |-> NoDate]
    ELSE IF p.kind = "hugezone" THEN [raised |-> "OverflowError", date |-> NoDate]
    ELSE [raised |-> "none", date |-> p.day]

ArticleA == <<"http://a.com/1">>
ArticleB == <<"http://a.com/1", "/x">>
WrappedA == <<"/url?", "q=", "http://a.com/1">>

\* The items a feed is made of: (title, link, pubDate) after strip().
FeedItemSet ==
    {[title |-> "a", link |-> ArticleA, pub |-> PubOn(1, "aware")],
     [title |-> "a", link |-> ArticleA, pub |-> PubOn(2, "naive")],
     [title |-> "a2", link |-> WrappedA, pub |-> PubOn(3, "aware")],
     [title |-> "b", link |-> ArticleB, pub |-> PubOn(2, "aware")],
     [title |-> "a", link |-> ArticleA, pub |-> PubAbsent],
     [title |-> "b", link |-> ArticleB, pub |-> PubBad],
     [title |-> "b", link |-> ArticleB, pub |-> PubHugeZone(2)],
     [title |-> "", link |-> ArticleA, pub |-> PubHugeZone(2)],
     [title |-> "a", link |-> <<>>, pub |-> PubOn(2, "aware")]}

Feeds == UNION {[1..n -> FeedItemSet] : n \in 0..MaxFeedLen}

\* The anchors an HTML answer is made of: the text of the anchor, its href,
\* and the text of its first h3 element, <<>> when it has none.
AnchorSet ==
    {[text |-> "a", href |-> <<"/url?", "q=", "http://a.com/1", "&", "url=", "/x">>,
      h3 |-> <<"a">>],
     [text |-> "a3", href |-> <<"https://www.google.com", "/url?", "url=", "http://a.com/1">>,
      h3 |-> <<"a3">>],
     [text |-> "m", href |-> <<"/url?", "q=", "https://maps.google.com">>, h3 |-> <<"m">>],
     [text |-> "s", href |-> <<"/url?", "q=", "https://support.google.com">>, h3 |-> <<>>],
     [text |-> "", href |-> <<"/url?", "q=", "http://a.com/1", "/x">>, h3 |-> <<"">>],
     [text |-> "n", href |-> <<"/x">>, h3 |-> <<"n">>]}

HtmlDocs == UNION {[1..n -> AnchorSet] : n \in 0..MaxAnchors}

\* A variant of the date filter that forgets the end of the window.
OutsideWindowStartOnly(d, s, e) == d # NoDate /\ d < s

\* "if pub_date and (pub_date < start_dt or pub_date > end_dt): continue"
OutsideWindow(d, s, e) == d # NoDate /\ (d < s \/ d > e)

\* The loop over root.findall(".//item"): the list it builds, or the error
\* _parse_pub_date raises out of it.
RECURSIVE FeedLoop(_, _, _, _, _, _)
FeedLoop(items, res, seen, s, e, m) ==
    IF items = <<>> THEN [raised |-> "none", res |-> res]
    ELSE LET it == Head(items)
             pub_date == ParsePubDate(it.pub)
             cleaned_link == IF CleanGoogleLink(it.link) # <<>>
                               THEN CleanGoogleLink(it.link) ELSE it.link
         IN  IF it.title = "" \/ it.link = <<>>
               THEN FeedLoop(Tail(items), res, seen, s, e, m)
             ELSE IF pub_date.raised # "none"
               THEN [raised |-> pub_date.raised, res |-> <<>>]
             ELSE IF OutsideWindow(pub_date.date, s, e)
               THEN FeedLoop(Tail(items), res, seen, s, e, m)
             ELSE IF cleaned_link \in seen
               THEN FeedLoop(Tail(items), res, seen, s, e, m)
             ELSE LET more == Append(res, [title |-> it.title, link |-> cleaned_link])
                  IN  IF Len(more) >= m THEN [raised |-> "none", res |-> more]
                      ELSE FeedLoop(Tail(items), more, seen \cup {cleaned_link}, s, e, m)

\* "support.google.com" in link
MentionsSupport(l) ==
    \E i \in 1..Len(l) : l[i] \in {"https://support.google.com", "https:/support.google.com"}

\* The loop over the anchors of _search_google_news_html
RECURSIVE HtmlLoop(_, _, _, _)
HtmlLoop(anchors, res, seen, m) ==
    IF anchors = <<>> THEN res
    ELSE LET a == Head(anchors)
             l == CleanGoogleLink(a.href)
         IN  IF a.text = ""
               THEN HtmlLoop(Tail(anchors), res, seen, m)
             ELSE IF l = <<>> \/ l \in seen
               THEN HtmlLoop(Tail(anchors), res, seen, m)
             ELSE IF l[1] = "https://maps.google.com" \/ MentionsSupport(l)
               THEN HtmlLoop(Tail(anchors), res, seen, m)
             ELSE LET more == Append(res, [title |-> a.text, link |-> l])
                  IN  IF Len(more) >= m THEN more
                      ELSE HtmlLoop(Tail(anchors), more, seen \cup {l}, m)

\* soup.select("a[href^='/url?'], a[href^='https://www.google.com/url?']")
SelectAnchors(as) == SelectSeq(as, LAMBDA a : IsRedirectWrapper(a.href))

\* soup.select("a[href^='/url?q=']")
SelectQueryAnchors(as) ==
    SelectSeq(as, LAMBDA a : Len(a.href) >= 2 /\ a.href[1] = "/url?" /\ a.href[2] = "q=")

\* urlparse(link).query.split("&")[0].replace("q=", "")
ActualLink(l) == SelectSeq(SplitAmp(UrlQuery(l))[1], LAMBDA t : t # "q=")

\* The loop over the anchors of the search_google_news that app.py imports
RECURSIVE AnchorLoop(_, _, _)
AnchorLoop(anchors, res, m) ==
    IF anchors = <<>> THEN res
    ELSE LET a == Head(anchors)
             actual_link == ActualLink(a.href)
         IN  IF a.h3 = <<>>
               THEN AnchorLoop(Tail(anchors), res, m)
             ELSE IF a.h3[1] = "" \/ ~StartsWithHttp(actual_link)
               THEN AnchorLoop(Tail(anchors), res, m)
             ELSE LET more == Append(res, [title |-> a.h3[1], link |-> actual_link])
                  IN  IF Len(more) >= m THEN more
                      ELSE AnchorLoop(Tail(anchors), more, m)

\* A variant that returns the empty feed result when the feed had items.
FeedPathReturnsWhenFeedHadItems(res, items) == res # <<>> \/ items # <<>>

\* "if results: return results"
FeedPathReturns(res, items) == res # <<>>

\* What ET.fromstring raises on a feed whose XML declaration names an encoding
\* expat cannot decode; neither error is an ET.ParseError.
UndecodableFeeds ==
    {[kind |-> "multibyte-encoding", error |-> "ValueError"],
     [kind |-> "unknown-encoding", error |-> "LookupError"]}

notGoogle == <<naverVars, dateVars, cleanVars, extractVars, dedupVars>>

GoogleInit ==
    /\ impl \in {"feed", "html"}
    /\ start_date \in GoogleDateArguments
    /\ end_date \in GoogleDateArguments
    /\ max_items \in ItemCaps
    /\ start_dt = NoDate
    /\ end_dt = NoDate
    /\ feed = NoAnswer
    /\ html = NoAnswer
    /\ fallbacks = 0
    /\ results = <<>>
    /\ pc = "dates"
    /\ outcome = "none"
    /\ NaverIdle /\ DateIdle /\ CleanIdle /\ ExtractIdle /\ DedupIdle

\* strptime raises ValueError on start_date or end_date: "return results",
\* the empty list, before any request is made.
DatesRejected ==
    /\ impl = "feed"
    /\ pc = "dates"
    /\ ~(StrptimeIsoAccepts(start_date) /\ StrptimeIsoAccepts(end_date))
    /\ results' = <<>>
    /\ pc' = "done"
    /\ outcome' = "returned"
    /\ UNCHANGED <<impl, start_date, end_date, start_dt, end_dt, max_items, feed, html, fallbacks>>
    /\ UNCHANGED notGoogle

\* Both arguments are dates and end_date is date.max: "end_dt + timedelta(days=1)"
\* raises OverflowError, which leaves search_google_news before any request.
DatesOverflow ==
    /\ impl = "feed"
    /\ pc = "dates"
    /\ StrptimeIsoAccepts(start_date)
    /\ StrptimeIsoAccepts(end_date)
    /\ StrptimeIsoDate(end_date) = DateMax
    /\ start_dt' = StrptimeIsoDate(start_date)
    /\ end_dt' = StrptimeIsoDate(end_date)
    /\ pc' = "done"
    /\ outcome' = "OverflowError"
    /\ UNCHANGED <<impl, start_date, end_date, max_items, feed, html, fallbacks, results>>
    /\ UNCHANGED notGoogle

\* start_dt and end_dt are the dates the two arguments write.
DatesParsed ==
    /\ impl = "feed"
    /\ pc = "dates"
    /\ StrptimeIsoAccepts(start_date)
    /\ StrptimeIsoAccepts(end_date)
    /\ StrptimeIsoDate(end_date) # DateMax
    /\ start_dt' = StrptimeIsoDate(start_date)
    /\ end_dt' = StrptimeIsoDate(end_date)
    /\ pc' = "feed"
    /\ UNCHANGED <<impl, start_date, end_date, max_items, feed, html, fallbacks, results, outcome>>
    /\ UNCHANGED notGoogle

\* safe_get raises on the feed request: the HTML fallback is called.
FeedRequestFails ==
    /\ pc = "feed"
    /\ feed' = [kind |-> "neterr", body |-> <<>>]
    /\ fallbacks' = fallbacks + 1
    /\ pc' = "fallback"
    /\ UNCHANGED <<impl, start_date, end_date, start_dt, end_dt, max_items, html, results, outcome>>
    /\ UNCHANGED notGoogle

\* ET.fromstring raises ParseError: the HTML fallback is called.
FeedParseFails ==
    /\ pc = "feed"
    /\ feed' = [kind |-> "parseerr", body |-> <<>>]
    /\ fallbacks' = fallbacks + 1
    /\ pc' = "fallback"
    /\ UNCHANGED <<impl, start_date, end_date, start_dt, end_dt, max_items, html, results, outcome>>
    /\ UNCHANGED notGoogle

\* ET.fromstring raises an error that "except ET.ParseError" does not catch:
\* the error leaves search_google_news and no fallback is called.
FeedParseRaises ==
    /\ pc = "feed"
    /\ \E u \in UndecodableFeeds :
        /\ feed' = [kind |-> u.kind, body |-> <<>>]
        /\ outcome' = u.error
    /\ pc' = "done"
    /\ UNCHANGED <<impl, start_date, end_date, start_dt, end_dt, max_items, html, results, fallbacks>>
    /\ UNCHANGED notGoogle

\* The feed is parsed and its items are filtered: an error of _parse_pub_date
\* leaves search_google_news; a non-empty result is returned; otherwise the
\* HTML fallback is called.
FeedParsed ==
    /\ pc = "feed"
    /\ \E items \in Feeds :
        LET loop == FeedLoop(items, <<>>, {}, start_dt, end_dt, max_items)
        IN  /\ feed' = [kind |-> "parsed", body |-> items]
            /\ results' = loop.res
            /\ IF loop.raised # "none"
                 THEN pc' = "done" /\ outcome' = loop.raised /\ fallbacks' = fallbacks
               ELSE IF FeedPathReturns(loop.res, items)
                 THEN pc' = "done" /\ outcome' = "returned" /\ fallbacks' = fallbacks
                 ELSE pc' = "fallback" /\ outcome' = outcome /\ fallbacks' = fallbacks + 1
    /\ UNCHANGED <<impl, start_date, end_date, start_dt, end_dt, max_items, html>>
    /\ UNCHANGED notGoogle

\* safe_get raises on the HTML request: "return []"
HtmlRequestFails ==
    /\ pc = "fallback"
    /\ html' = [kind |-> "neterr", body |-> <<>>]
    /\ results' = <<>>
    /\ pc' = "done"
    /\ outcome' = "returned"
    /\ UNCHANGED <<impl, start_date, end_date, start_dt, end_dt, max_items, feed, fallbacks>>
    /\ UNCHANGED notGoogle

\* The HTML answer is scraped and its records returned.
HtmlFetched ==
    /\ pc = "fallback"
    /\ \E as \in HtmlDocs :
        /\ html' = [kind |-> "ok", body |-> as]
        /\ results' = HtmlLoop(SelectAnchors(as), <<>>, {}, max_items)
    /\ pc' = "done"
    /\ outcome' = "returned"
    /\ UNCHANGED <<impl, start_date, end_date, start_dt, end_dt, max_items, feed, fallbacks>>
    /\ UNCHANGED notGoogle

\* search_google_news as app.py imports it: strptime is outside any try, its
\* ValueError on start_date or end_date reaches the caller.
HtmlDatesRaise ==
    /\ impl = "html"
    /\ pc = "dates"
    /\ ~(StrptimeIsoAccepts(start_date) /\ StrptimeIsoAccepts(end_date))
    /\ pc' = "done"
    /\ outcome' = "ValueError"
    /\ UNCHANGED <<impl, start_date, end_date, start_dt, end_dt, max_items, feed, html, fallbacks, results>>
    /\ UNCHANGED notGoogle

\* search_google_news as app.py imports it: the two dates are parsed and written into
\* the search URL.
HtmlDatesParsed ==
    /\ impl = "html"
    /\ pc = "dates"
    /\ StrptimeIsoAccepts(start_date)
    /\ StrptimeIsoAccepts(end_date)
    /\ start_dt' = StrptimeIsoDate(start_date)
    /\ end_dt' = StrptimeIsoDate(end_date)
    /\ pc' = "search"
    /\ UNCHANGED <<impl, start_date, end_date, max_items, feed, html, fallbacks, results, outcome>>
    /\ UNCHANGED notGoogle

\* search_google_news as app.py imports it: safe_get raises, the empty list is returned.
HtmlSearchFails ==
    /\ pc = "search"
    /\ html' = [kind |-> "neterr", body |-> <<>>]
    /\ results' = <<>>
    /\ pc' = "done"
    /\ outcome' = "returned"
    /\ UNCHANGED <<impl, start_date, end_date, start_dt, end_dt, max_items, feed, fallbacks>>
    /\ UNCHANGED notGoogle

\* search_google_news as app.py imports it: the answer is scraped.
HtmlSearched ==
    /\ pc = "search"
    /\ \E as \in HtmlDocs :
        /\ html' = [kind |-> "ok", body |-> as]
        /\ results' = AnchorLoop(SelectQueryAnchors(as), <<>>, max_items)
    /\ pc' = "done"
    /\ outcome' = "returned"
    /\ UNCHANGED <<impl, start_date, end_date, start_dt, end_dt, max_items, feed, fallbacks>>
    /\ UNCHANGED notGoogle

GoogleNext ==
    \/ DatesRejected
    \/ DatesOverflow
    \/ DatesParsed
    \/ FeedRequestFails
    \/ FeedParseFails
    \/ FeedParseRaises
    \/ FeedParsed
    \/ HtmlRequestFails
    \/ HtmlFetched
    \/ HtmlDatesRaise
    \/ HtmlDatesParsed
    \/ HtmlSearchFails
    \/ HtmlSearched

SpecGoogle == GoogleInit /\ [][GoogleNext]_vars


\* The item carries a publication date that lies outside the window.
DatedOutside(it) ==
    it.pub.kind = "rfc2822" /\ (it.pub.day < start_dt \/ it.pub.day > end_dt)

\* The item has a title and a link.
IsEntry(it) == it.title # "" /\ it.link # <<>>

\* The item has a title and a link, its pubDate is read without an error and
\* the date filter does not discard it.
Survives(it) == IsEntry(it) /\ it.pub.kind # "hugezone" /\ ~DatedOutside(it)

\* What a call of _search_google_news_html that has returned gave back.
FallbackResultReturned ==
    /\ html.kind \in {"neterr", "ok"}
    /\ html.kind = "neterr" => results = <<>>
    /\ html.kind = "ok" =>
          /\ Len(results) <= max_items
          /\ \A i \in 1..Len(results) :
                \E j \in 1..Len(html.body) :
                    /\ IsRedirectWrapper(html.body[j].href)
                    /\ results[i].title = html.body[j].text
                    /\ results[i].link = CleanGoogleLink(html.body[j].href)
          /\ results = HtmlLoop(SelectAnchors(html.body), <<>>, {}, max_items)

\* C3: when the feed request fails or the feed document does not parse, the
\* HTML fallback is called exactly once and the call returns what the fallback
\* returns (nothing when the fallback request fails too); no error is raised.
C3_FallbackOnFeedFailure ==
    feed.kind \in {"neterr", "parseerr", "multibyte-encoding", "unknown-encoding"} =>
        /\ fallbacks = 1
        /\ pc \in {"fallback", "done"}
        /\ outcome \in {"none", "returned"}
        /\ pc = "done" => outcome = "returned" /\ FallbackResultReturned

\* C4: every record returned from the feed path comes from a feed item that
\* carries no publication date outside [start_dt, end_dt].
C4_FeedPathInsideWindow ==
    (pc = "done" /\ feed.kind = "parsed" /\ fallbacks = 0) =>
        \A i \in 1..Len(results) :
            \E j \in 1..Len(feed.body) :
                /\ Survives(feed.body[j])
                /\ results[i].title = feed.body[j].title
                /\ results[i].link = CleanGoogleLink(feed.body[j].link)

\* A feed of two items, one dated after the window: only the other is returned.
C4_Witness ==
    /\ pc = "done"
    /\ outcome = "returned"
    /\ feed.kind = "parsed"
    /\ fallbacks = 0
    /\ Len(feed.body) = 2
    /\ DatedOutside(feed.body[1])
    /\ feed.body[1].pub.day > end_dt
    /\ IsEntry(feed.body[1])
    /\ Len(results) = 1
    /\ max_items = 2

\* The entries of the parsed feed: its items that have a title and a link.
FeedEntries(items) == SelectSeq(items, IsEntry)

\* C8 as stated: after a successful parse the HTML fallback is called only
\* when the feed had no entries; a feed with entries that are all discarded by
\* the date filter gives an empty result without a fallback.
C8_NoFallbackAfterNonEmptyFeed ==
    feed.kind = "parsed" =>
        /\ fallbacks > 0 => FeedEntries(feed.body) = <<>>
        /\ (pc = "done" /\ FeedEntries(feed.body) # <<>>
              /\ \A j \in 1..Len(feed.body) : DatedOutside(feed.body[j]))
             => results = <<>> /\ fallbacks = 0

\* The item is an entry that the date filter does not discard.
Kept(it) == IsEntry(it) /\ ~DatedOutside(it)

\* C8, amended: when the parsed feed has at least one entry and the date
\* filter discards every entry, the HTML fallback is called once and the call
\* returns what the fallback returns; after a successful parse the fallback is
\* called only when the date filter has left no entry of the feed.
C8_FallbackWhenAllDiscarded ==
    feed.kind = "parsed" =>
        /\ fallbacks > 0 => \A j \in 1..Len(feed.body) : ~Kept(feed.body[j])
        /\ (/\ FeedEntries(feed.body) # <<>>
            /\ \A j \in 1..Len(feed.body) :
                  IsEntry(feed.body[j]) => DatedOutside(feed.body[j]))
             => /\ fallbacks = 1
                /\ pc = "done" => outcome = "returned" /\ FallbackResultReturned

\* A feed of two items, both dated outside the window: the fallback ran and
\* its record was returned.
C8_Witness ==
    /\ pc = "done"
    /\ feed.kind = "parsed"
    /\ Len(feed.body) = 2
    /\ \A j \in 1..Len(feed.body) : DatedOutside(feed.body[j]) /\ IsEntry(feed.body[j])
    /\ fallbacks = 1
    /\ html.kind = "ok"
    /\ results # <<>>


-----------------------------------------------------------------------------
(* Deduplication: the loop of app.py and the last loop of parse_search_results *)

\* The records of a list that are the first of the list with their link, in
\* the order of the list.
RECURSIVE FirstOccurrencesFrom(_, _)
FirstOccurrencesFrom(recs, i) ==
    IF i > Len(recs) THEN <<>>
    ELSE (IF \E j \in 1..(i - 1) : recs[j].link = recs[i].link THEN <<>> ELSE <<recs[i]>>)
           \o FirstOccurrencesFrom(recs, i + 1)

FirstOccurrences(recs) == FirstOccurrencesFrom(recs, 1)

LinksOf(recs) == {recs[i].link : i \in 1..Len(recs)}

DistinctLinks(recs) ==
    \A i, j \in 1..Len(recs) : recs[i].link = recs[j].link => i = j

\* A variant that keeps the last record seen with a link, not the first.
RECURSIVE DedupLoopKeepLast(_, _, _)
DedupLoopKeepLast(items, unique, seen) ==
    IF items = <<>> THEN unique
    ELSE LET item == Head(items)
         IN  IF item.link \in LinksOf(Tail(items))
               THEN DedupLoopKeepLast(Tail(items), unique, seen)
               ELSE DedupLoopKeepLast(Tail(items), Append(unique, item), seen)

\* "for item in results: if item['link'] not in seen_links:
\*      unique_results.append(item); seen_links.add(item['link'])"
RECURSIVE DedupLoop(_, _, _)
DedupLoop(items, unique, seen) ==
    IF items = <<>> THEN unique
    ELSE LET item == Head(items)
         IN  IF item.link \notin seen
               THEN DedupLoop(Tail(items), Append(unique, item), seen \cup {item.link})
               ELSE DedupLoop(Tail(items), unique, seen)

MaxRecords == 3         \* a result list has at most MaxRecords records

RecordSet == {[title |-> t, link |-> l] : t \in {"t1", "t2"}, l \in {ArticleA, ArticleB, WrappedA}}

ResultLists == UNION {[1..n -> RecordSet] : n \in 0..MaxRecords}

notDedup == <<max_items, outcome, naverVars, googleVars, dateVars, cleanVars, extractVars>>

DedupInit ==
    /\ results \in ResultLists
    /\ unique_results = <<>>
    /\ seen_links = {}
    /\ pc = "call"
    /\ max_items = 0 /\ outcome = "none"
    /\ NaverIdle /\ GoogleIdle /\ DateIdle /\ CleanIdle /\ ExtractIdle

\* The dedup loop over the results of one keyword
Dedupe ==
    /\ pc = "call"
    /\ unique_results' = DedupLoop(results, <<>>, {})
    /\ seen_links' = LinksOf(DedupLoop(results, <<>>, {}))
    /\ pc' = "again"
    /\ UNCHANGED results
    /\ UNCHANGED notDedup

\* The same loop over its own output
DedupeAgain ==
    /\ pc = "again"
    /\ results' = unique_results
    /\ unique_results' = DedupLoop(unique_results, <<>>, {})
    /\ seen_links' = LinksOf(DedupLoop(unique_results, <<>>, {}))
    /\ pc' = "done"
    /\ UNCHANGED notDedup

DedupNext == Dedupe \/ DedupeAgain

SpecDedup == DedupInit /\ [][DedupNext]_vars

\* C6: dedupe returns the records that are the first with their link, in their
\* original order, whatever their titles; the links of the output are pairwise
\* distinct, and the output deduplicated again is the output itself.
C6_DedupeFirstOccurrence ==
    /\ pc = "again" =>
          /\ unique_results = FirstOccurrences(results)
          /\ DistinctLinks(unique_results)
          /\ LinksOf(unique_results) = LinksOf(results)
          /\ seen_links = LinksOf(results)
    /\ pc = "done" => unique_results = results

\* Three records, the third repeating the link of the first under another
\* title: the first two are kept.
C6_Witness ==
    /\ pc = "again"
    /\ results = <<[title |-> "t1", link |-> ArticleA],
                   [title |-> "t1", link |-> ArticleB],
                   [title |-> "t2", link |-> ArticleA]>>
    /\ unique_results = <<[title |-> "t1", link |-> ArticleA],
                          [title |-> "t1", link |-> ArticleB]>>

-----------------------------------------------------------------------------
(* parse_search_results *)

MaxNodes == 2           \* a document has at most MaxNodes matching elements

\* The elements of the document that a selector can match, in document order.
\* An anchor has a class news_tit or not, a title attribute and an href (empty
\* when absent), a text, and its text is inside a headline span or not; a
\* headline span can also stand outside of any anchor.
AnchorNodes ==
    {[tag |-> "a", news_tit |-> c, title |-> t, href |-> h, text |-> x, headline |-> s] :
        c \in BOOLEAN, t \in {"", "T"}, h \in {<<>>, ArticleA, ArticleB, <<"/x">>},
        x \in {"", "x"}, s \in BOOLEAN}

SpanNodes ==
    {[tag |-> "span", news_tit |-> FALSE, title |-> "", href |-> <<>>, text |-> x,
      headline |-> TRUE] : x \in {"", "x"}}

Documents == UNION {[1..n -> AnchorNodes \cup SpanNodes] : n \in 0..MaxNodes}

\* Strategy 1: soup.select("a.news_tit"); title attribute or text, href
RECURSIVE ClassicStrategy(_)
ClassicStrategy(d) ==
    IF d = <<>> THEN <<>>
    ELSE LET a == Head(d)
             title == IF a.title # "" THEN a.title ELSE a.text
         IN  (IF a.tag = "a" /\ a.news_tit /\ title # "" /\ a.href # <<>>
                THEN <<[title |-> title, link |-> a.href]>> ELSE <<>>)
               \o ClassicStrategy(Tail(d))

\* Strategy 2: soup.select("span.sds-comps-text-type-headline1"); the text of
\* the span, the href of the anchor around it
RECURSIVE ComponentStrategy(_)
ComponentStrategy(d) ==
    IF d = <<>> THEN <<>>
    ELSE LET n == Head(d)
         IN  (IF n.headline /\ n.tag = "a" /\ n.text # "" /\ n.href # <<>>
                THEN <<[title |-> n.text, link |-> n.href]>> ELSE <<>>)
               \o ComponentStrategy(Tail(d))

\* A variant of the last loop that checks the link and not whether it was seen.
RECURSIVE ValidLoop(_, _, _)
ValidLoop(items, res, seen) ==
    IF items = <<>> THEN res
    ELSE LET it == Head(items)
         IN  IF it.link # <<>> /\ StartsWithHttp(it.link)
               THEN ValidLoop(Tail(items), Append(res, it), seen \cup {it.link})
               ELSE ValidLoop(Tail(items), res, seen)

\* "for it in results: if it.get('link') and it['link'].startswith('http')
\*      and it['link'] not in seen: seen.add(it['link']); out.append(it)"
RECURSIVE ValidUniqueLoop(_, _, _)
ValidUniqueLoop(items, res, seen) ==
    IF items = <<>> THEN res
    ELSE LET it == Head(items)
         IN  IF it.link # <<>> /\ StartsWithHttp(it.link) /\ it.link \notin seen
               THEN ValidUniqueLoop(Tail(items), Append(res, it), seen \cup {it.link})
               ELSE ValidUniqueLoop(Tail(items), res, seen)

notExtract == <<max_items, outcome, naverVars, googleVars, dateVars, cleanVars, dedupVars>>

ExtractInit ==
    /\ doc \in Documents
    /\ results = <<>>
    /\ out = <<>>
    /\ pc = "call"
    /\ max_items = 0 /\ outcome = "none"
    /\ NaverIdle /\ GoogleIdle /\ DateIdle /\ CleanIdle /\ DedupIdle

\* The call parse_search_results(html)
ParseSearchResults ==
    /\ pc = "call"
    /\ results' = ClassicStrategy(doc) \o ComponentStrategy(doc)
    /\ out' = ValidUniqueLoop(ClassicStrategy(doc) \o ComponentStrategy(doc), <<>>, {})
    /\ pc' = "done"
    /\ UNCHANGED doc
    /\ UNCHANGED notExtract

ExtractNext == ParseSearchResults

SpecExtract == ExtractInit /\ [][ExtractNext]_vars

\* The records with a title and a link that starts with "http", in order.
WithHttpLink(recs) == SelectSeq(recs, LAMBDA r : r.title # "" /\ StartsWithHttp(r.link))

\* C9 as stated: the output is the classic records followed by the component
\* records, less only those without a title or an absolute link; nothing is
\* deduplicated.
C9_NoDeduplication ==
    pc = "done" => out = WithHttpLink(ClassicStrategy(doc) \o ComponentStrategy(doc))

\* C9, amended: the output is the classic records followed by the component
\* records, each in document order, less the records without a title, without
\* a link or with a link that does not start with "http", and less every
\* record whose link an earlier kept record has: the output is deduplicated by
\* link, first occurrence first.
C9_ExtractDeduplicates ==
    pc = "done" =>
        /\ results = ClassicStrategy(doc) \o ComponentStrategy(doc)
        /\ out = FirstOccurrences(WithHttpLink(results))
        /\ DistinctLinks(out)

\* One anchor that both strategies match: two records extracted, one returned.
C9_Witness ==
    /\ pc = "done"
    /\ Len(doc) = 1
    /\ doc[1].news_tit /\ doc[1].headline
    /\ results = <<[title |-> "T", link |-> ArticleA], [title |-> "x", link |-> ArticleA]>>
    /\ out = <<[title |-> "T", link |-> ArticleA]>>

=============================================================================
